---------------------------- MODULE Spec2Model ----------------------------
(***************************************************************************)
(* A model of iwlistparse.py: the parser of `iwlist scan` / `iwconfig`     *)
(* output.  Python strings are sequences of one-character strings, so that *)
(* slicing, prefix comparison, strip, split, index and replace are         *)
(* computed character by character as the source computes them.            *)
(*                                                                         *)
(* Python values are tagged records:                                       *)
(*   Str(s)    a str whose characters are the sequence s                   *)
(*   None      the value None                                              *)
(*   Val(x)    any other value (a list, a dict, a ParseResult)             *)
(*   Raise(e)  the call did not return: exception e propagated             *)
(***************************************************************************)
EXTENDS Integers, Sequences, FiniteSets

VARIABLES
    call,     \* name of the function applied last ("none" before any call)
    arg,      \* the argument it was applied to
    ret,      \* what it returned, or the exception it raised
    spawned   \* the commands popen_handler ran during the call, in order

vars == <<call, arg, ret, spawned>>

---------------------------------------------------------------------------
(* Python values *)

Str(s) == [t |-> "str", s |-> s]

None == [t |-> "None"]

Val(x) == [t |-> "value", v |-> x]

Raise(e) == [t |-> "raise", exc |-> e]

NoReturn == [t |-> "pending"]

IsRaise(x) == x.t = "raise"

---------------------------------------------------------------------------
(* str primitives *)

Min(a, b) == IF a < b THEN a ELSE b

Max(a, b) == IF a < b THEN b ELSE a

\* s[:n] for n >= 0
py_take(s, n) == SubSeq(s, 1, Min(n, Len(s)))

\* s[n:] for n >= 0
py_drop(s, n) == SubSeq(s, Min(n, Len(s)) + 1, Len(s))

\* s[-n:] for n > 0
py_last(s, n) == SubSeq(s, Max(Len(s) - n, 0) + 1, Len(s))

\* s[1:-1]
py_inner(s) == SubSeq(s, 2, Len(s) - 1)

\* the characters str.strip() and str.split() treat as blanks
Whitespace == {" ", "\t", "\n", "\r"}

RECURSIVE py_lstrip(_)
py_lstrip(s) ==
    IF s # <<>> /\ Head(s) \in Whitespace THEN py_lstrip(Tail(s)) ELSE s

RECURSIVE py_rstrip(_)
py_rstrip(s) ==
    IF s # <<>> /\ s[Len(s)] \in Whitespace
    THEN py_rstrip(SubSeq(s, 1, Len(s) - 1))
    ELSE s

\* s.strip()
py_strip(s) == py_rstrip(py_lstrip(s))

\* s.find(sub): the least 0-based offset at which sub occurs in s, or -1
RECURSIVE py_find_from(_, _, _)
py_find_from(s, sub, i) ==
    IF i + Len(sub) > Len(s) THEN -1
    ELSE IF SubSeq(s, i + 1, i + Len(sub)) = sub THEN i
    ELSE py_find_from(s, sub, i + 1)

py_find(s, sub) == py_find_from(s, sub, 0)

\* s.split(sep) for a non-empty separator: always at least one part
RECURSIVE py_split(_, _)
py_split(s, sep) ==
    LET i == py_find(s, sep)
    IN  IF i = -1 THEN <<s>>
        ELSE <<py_take(s, i)>> \o py_split(py_drop(s, i + Len(sep)), sep)

\* s.split(): the maximal runs of non-blank characters
RECURSIVE py_split_blank(_, _)
py_split_blank(s, word) ==
    IF s = <<>> THEN (IF word = <<>> THEN <<>> ELSE <<word>>)
    ELSE IF Head(s) \in Whitespace
         THEN (IF word = <<>> THEN <<>> ELSE <<word>>)
              \o py_split_blank(Tail(s), <<>>)
         ELSE py_split_blank(Tail(s), Append(word, Head(s)))

\* s.replace(c, '') for a one-character c
RECURSIVE py_remove(_, _)
py_remove(s, c) ==
    IF s = <<>> THEN <<>>
    ELSE (IF Head(s) = c THEN <<>> ELSE <<Head(s)>>) \o py_remove(Tail(s), c)

---------------------------------------------------------------------------
(* LineMatcher *)

match(line, keyword) ==
    LET length == Len(keyword)
    IN  IF py_take(line, length) = keyword
        THEN Str(py_drop(line, length))
        ELSE None

RECURSIVE matching_line(_, _)
matching_line(lines, keyword) ==
    IF lines = <<>> THEN None
    ELSE LET matching == match(Head(lines), keyword)
         IN  IF matching # None THEN matching
             ELSE matching_line(Tail(lines), keyword)

---------------------------------------------------------------------------
(* CellSegmenter: the first loop of iwlist_parse *)

KW_Cell == <<"C","e","l","l"," ">>

AddressWidth == 27

iwlist_parse_append(cells, line) ==
    [cells EXCEPT ![Len(cells)] = Append(@, py_strip(line))]

RECURSIVE iwlist_parse_loop(_, _)
iwlist_parse_loop(lines, cells) ==
    IF lines = <<>> THEN cells
    ELSE LET line == Head(lines)
             cell_line == match(line, KW_Cell)
         IN  IF cell_line # None
             THEN iwlist_parse_loop(Tail(lines),
                      iwlist_parse_append(Append(cells, <<>>),
                                          py_last(cell_line.s, AddressWidth)))
             ELSE iwlist_parse_loop(Tail(lines),
                      iwlist_parse_append(cells, line))

iwlist_parse_keep_placeholder(lines) == iwlist_parse_loop(lines, << <<>> >>)

\* cells = [[]]; the loop; cells = cells[1:]
iwlist_parse_cells(lines) == Tail(iwlist_parse_loop(lines, << <<>> >>))

---------------------------------------------------------------------------
(* Numbers: float(), round(), format() as get_quality uses them *)

Digit == [c \in {"0", "1", "2", "3", "4", "5", "6", "7", "8", "9"} |->
            CASE c = "0" -> 0 [] c = "1" -> 1 [] c = "2" -> 2 [] c = "3" -> 3
              [] c = "4" -> 4 [] c = "5" -> 5 [] c = "6" -> 6 [] c = "7" -> 7
              [] c = "8" -> 8 [] c = "9" -> 9]

DigitChar == <<"0", "1", "2", "3", "4", "5", "6", "7", "8", "9">>

RECURSIVE py_digits_value(_, _)
py_digits_value(s, acc) ==
    IF s = <<>> THEN acc
    ELSE py_digits_value(Tail(s), 10 * acc + Digit[Head(s)])

\* float(s), for the tokens the model supplies: a string of decimal digits is
\* its value, every other token here is one float() rejects.
py_float(s) ==
    IF s # <<>> /\ \A i \in 1..Len(s) : s[i] \in DOMAIN Digit
    THEN Val(py_digits_value(s, 0))
    ELSE Raise("ValueError")

py_round_percent_floor(a, b) == (100 * a) \div b

\* int(round(a / b * 100)) for integers a >= 0, b > 0: the nearest integer,
\* a tie going to the even neighbour.  (On doubles the quotient of the
\* denominators used here, none a multiple of 40, rounds the same way.)
py_round_percent(a, b) ==
    LET q == (100 * a) \div b
        r == (100 * a) % b
    IN  IF 2 * r < b THEN q
        ELSE IF 2 * r > b THEN q + 1
        ELSE IF q % 2 = 0 THEN q ELSE q + 1

\* str(n) for n >= 0
RECURSIVE py_str_int(_)
py_str_int(n) ==
    IF n < 10 THEN <<DigitChar[n + 1]>>
    ELSE Append(py_str_int(n \div 10), DigitChar[(n % 10) + 1])

RECURSIVE py_rjust(_, _)
py_rjust(s, width) == IF Len(s) >= width THEN s ELSE py_rjust(<<" ">> \o s, width)

py_format_unpadded(n) == py_str_int(n) \o <<" ","%">>

QualityWidth == 3

\* '{:3} %'.format(n): an int is right-justified in its field
py_format_quality(n) == py_rjust(py_str_int(n), QualityWidth) \o <<" ","%">>

---------------------------------------------------------------------------
(* FieldExtractors *)

KW_ESSID == <<"E","S","S","I","D",":">>

KW_Quality == <<"Q","u","a","l","i","t","y","=">>

KW_Channel == <<"C","h","a","n","n","e","l",":">>

KW_Signal == <<"S","i","g","n","a","l"," ","l","e","v","e","l","=">>

KW_EncryptionKey == <<"E","n","c","r","y","p","t","i","o","n"," ","k","e","y",":">>

KW_IE == <<"I","E",":">>

KW_WPA == <<"W","P","A"," ","V","e","r","s","i","o","n"," ">>

KW_Address == <<"A","d","d","r","e","s","s",":"," ">>

get_name(cell) ==
    LET m == matching_line(cell, KW_ESSID)
    IN  IF m = None THEN Raise("TypeError")      \* None[1:-1]
        ELSE Str(py_inner(m.s))

get_quality(cell) ==
    LET m == matching_line(cell, KW_Quality)
    IN  IF m = None THEN Raise("AttributeError")  \* None.split()
        ELSE LET words == py_split_blank(m.s, <<>>)
             IN  IF words = <<>> THEN Raise("IndexError")   \* [][0]
                 ELSE LET quality == py_split(words[1], <<"/">>)
                          num == py_float(quality[1])
                      IN  IF IsRaise(num) THEN num
                          ELSE IF Len(quality) < 2 THEN Raise("IndexError")
                          ELSE LET den == py_float(quality[2])
                               IN  IF IsRaise(den) THEN den
                                   ELSE IF den.v = 0
                                        THEN Raise("ZeroDivisionError")
                                   ELSE Str(py_format_quality(
                                            py_round_percent(num.v, den.v)))

get_channel(cell) == matching_line(cell, KW_Channel)

get_signal_level(cell) ==
    LET m == matching_line(cell, KW_Quality)
    IN  IF m = None THEN Raise("AttributeError")  \* None.split(...)
        ELSE LET parts == py_split(m.s, KW_Signal)
             IN  IF Len(parts) < 2 THEN Raise("IndexError")
                 ELSE Str(parts[2])

RECURSIVE get_encryption_scan(_, _)
get_encryption_scan(cell, enc) ==
    IF cell = <<>> THEN enc
    ELSE LET matching == match(Head(cell), KW_IE)
             wpa == IF matching # None THEN match(matching.s, KW_WPA) ELSE None
         IN  get_encryption_scan(Tail(cell),
                 IF wpa # None THEN <<"W","P","A"," ","v",".">> \o wpa.s ELSE enc)

get_encryption_ignoring_key(cell) ==
    LET enc == get_encryption_scan(cell, <<>>)
    IN  IF enc # <<>> THEN Str(enc)
        ELSE IF matching_line(cell, KW_EncryptionKey) = Str(<<"o","f","f">>)
             THEN Str(<<"O","p","e","n">>)
             ELSE Str(<<"W","E","P">>)

get_encryption(cell) ==
    IF matching_line(cell, KW_EncryptionKey) = Str(<<"o","f","f">>)
    THEN Str(<<"O","p","e","n">>)
    ELSE LET enc == get_encryption_scan(cell, <<>>)
         IN  IF enc = <<>> THEN Str(<<"W","E","P">>) ELSE Str(enc)

get_address(cell) == matching_line(cell, KW_Address)

\* the dict RULES, in its insertion order
RULES == <<"Name", "Quality", "Channel", "Encryption", "Address", "Signal">>

RULE(key, cell) ==
    CASE key = "Name"       -> get_name(cell)
      [] key = "Quality"    -> get_quality(cell)
      [] key = "Channel"    -> get_channel(cell)
      [] key = "Encryption" -> get_encryption(cell)
      [] key = "Address"    -> get_address(cell)
      [] key = "Signal"     -> get_signal_level(cell)

COLUMNS == <<"Name", "Address", "Quality", "Signal", "Channel", "Encryption">>

---------------------------------------------------------------------------
(* CellParser *)

\* the first rule, in dict order, whose extractor raises (0 if none does)
RECURSIVE parse_cell_first_raise(_, _)
parse_cell_first_raise(cell, i) ==
    IF i > Len(RULES) THEN 0
    ELSE IF IsRaise(RULE(RULES[i], cell)) THEN i
    ELSE parse_cell_first_raise(cell, i + 1)

parse_cell(cell) ==
    LET bad == parse_cell_first_raise(cell, 1)
    IN  IF bad # 0 THEN RULE(RULES[bad], cell)
        ELSE Val([key \in {RULES[i] : i \in 1..Len(RULES)} |-> RULE(key, cell)])

---------------------------------------------------------------------------
(* TableBuilder: sort_cells *)

\* ord(c) for the characters a Quality string is made of
Ord(c) ==
    CASE c = " " -> 32
      [] c = "%" -> 37
      [] c \in DOMAIN Digit -> 48 + Digit[c]

\* a < b for two str
RECURSIVE py_str_lt(_, _)
py_str_lt(a, b) ==
    IF b = <<>> THEN FALSE
    ELSE IF a = <<>> THEN TRUE
    ELSE IF Head(a) # Head(b) THEN Ord(Head(a)) < Ord(Head(b))
    ELSE py_str_lt(Tail(a), Tail(b))

sort_key(el) == el["Quality"].s

\* list.sort is stable: an element goes after every element not greater
RECURSIVE list_sort_insert(_, _)
list_sort_insert(sorted, el) ==
    IF sorted = <<>> THEN <<el>>
    ELSE IF py_str_lt(sort_key(el), sort_key(Head(sorted)))
         THEN <<el>> \o sorted
         ELSE <<Head(sorted)>> \o list_sort_insert(Tail(sorted), el)

RECURSIVE list_sort(_, _)
list_sort(todo, sorted) ==
    IF todo = <<>> THEN sorted
    ELSE list_sort(Tail(todo), list_sort_insert(sorted, Head(todo)))

list_reverse(xs) == [i \in 1..Len(xs) |-> xs[Len(xs) + 1 - i]]

sort_cells_reverse_after(cells) == list_reverse(list_sort(cells, <<>>))

\* cells.sort(key=..., reverse=True): the list is reversed, sorted stably in
\* ascending order and reversed again, so equal keys keep their order
sort_cells(cells) == list_reverse(list_sort(list_reverse(cells), <<>>))

---------------------------------------------------------------------------
(* iwlist_parse: segment, parse every cell, sort *)

\* the first cell, in order, that parse_cell raises on (0 if none)
RECURSIVE iwlist_parse_first_raise(_, _)
iwlist_parse_first_raise(cells, i) ==
    IF i > Len(cells) THEN 0
    ELSE IF IsRaise(parse_cell(cells[i])) THEN i
    ELSE iwlist_parse_first_raise(cells, i + 1)

iwlist_parse(lines) ==
    LET cells == iwlist_parse_cells(lines)
        bad == iwlist_parse_first_raise(cells, 1)
    IN  IF bad # 0 THEN parse_cell(cells[bad])
        ELSE Val(sort_cells([i \in 1..Len(cells) |-> parse_cell(cells[i]).v]))

---------------------------------------------------------------------------
(* ConnectionStatusParser *)

CURRENTLY_DISCONNECTED_LABEL == <<"*">>

\* lines is Val(list) for a list and None for a value that is no list
iwconfig_parse(lines) ==
    IF lines.t = "value"                                 \* isinstance(lines, list)
    THEN IF lines.v = <<>> THEN Raise("IndexError")      \* lines[0]
         ELSE LET line == py_strip(lines.v[1])
              IN  IF py_find(line, KW_ESSID) # -1        \* line.count('ESSID:') > 0
                  THEN LET indx == py_find(line, KW_ESSID) + 6
                           currently_connected ==
                               py_remove(py_drop(line, indx), "\"")
                       IN  IF currently_connected # <<"o","f","f","/","a","n","y">>
                           THEN Str(currently_connected)
                           ELSE Str(CURRENTLY_DISCONNECTED_LABEL)
                  ELSE Str(CURRENTLY_DISCONNECTED_LABEL)
    ELSE Str(CURRENTLY_DISCONNECTED_LABEL)

---------------------------------------------------------------------------
(* ScanOrchestrator *)

\* proc is what communicate() gave back: [output, error]
popen_handler(proc) ==
    [lines |-> py_split(proc.output, <<"\n">>), error |-> proc.error]

iwlist_handler_args(interface) == <<"iwlist", interface, "scan">>

iwconfig_handler_args(interface) == <<"iwconfig", interface>>

\* the commands one call of iwlistparse runs, in order
iwlistparse_spawns(interface, switch) ==
    (IF switch = "connected" THEN <<iwconfig_handler_args(interface)>> ELSE <<>>)
    \o (IF switch = "all" THEN <<iwlist_handler_args(interface)>> ELSE <<>>)

iwlistparse_both_branches(interface, switch, headers, proc) ==
    LET handled == popen_handler(proc)
        currently_connected == iwconfig_parse(Val(handled.lines))
        access_points == iwlist_parse(handled.lines)
    IN  IF IsRaise(currently_connected) THEN currently_connected
        ELSE IF IsRaise(access_points) THEN access_points
        ELSE Val([currently_connected |-> currently_connected,
                  headers |-> headers,
                  access_points |-> access_points.v,
                  error |-> handled.error])

\* proc is the reply of the one command the call runs, if it runs one
iwlistparse(interface, switch, headers, proc) ==
    LET handled == popen_handler(proc)
        currently_connected ==
            IF switch = "connected" THEN iwconfig_parse(Val(handled.lines))
            ELSE Str(CURRENTLY_DISCONNECTED_LABEL)
        access_points ==
            IF switch = "all" THEN iwlist_parse(handled.lines) ELSE Val(<<>>)
        error ==
            IF switch = "connected" \/ switch = "all" THEN handled.error ELSE None
    IN  IF IsRaise(currently_connected) THEN currently_connected
        ELSE IF IsRaise(access_points) THEN access_points
        ELSE Val([currently_connected |-> currently_connected,
                  headers |-> headers,
                  access_points |-> access_points.v,
                  error |-> error])

---------------------------------------------------------------------------
(* Inputs *)

MaxLines == 4

MaxCellLines == 3

MaxQualityLines == 2

MaxRecords == 3

MaxStatusLines == 2

MaxCells == 3

\* every list of at most n elements of S
ListsUpTo(S, n) == UNION {[1..k -> S] : k \in 0..n}

RECURSIVE JoinLines(_)
JoinLines(lines) ==
    IF lines = <<>> THEN <<>>
    ELSE IF Len(lines) = 1 THEN lines[1]
    ELSE lines[1] \o <<"\n">> \o JoinLines(Tail(lines))

RECURSIVE Flatten(_)
Flatten(lists) == IF lists = <<>> THEN <<>> ELSE Head(lists) \o Flatten(Tail(lists))

SignalText == <<"-","4","3"," ","d","B","m">>

\* the line iwlist prints for quality n/d
QualityLine(n, d) ==
    KW_Quality \o py_str_int(n) \o <<"/">> \o py_str_int(d)
        \o <<" "," ">> \o KW_Signal \o SignalText

\* raw scan lines for the segmenter
SegmentMenu ==
    { <<"C","e","l","l"," ","0","1"," ","-"," ","A","d","d","r","e","s","s",":"," ","0","0",":","1","1",":","2","2",":","3","3",":","4","4",":","5","5">>,
      <<"C","e","l","l"," ","0","2">>,
      <<" "," ","C","e","l","l"," ","0","3"," ","-"," ","A","d","d","r","e","s","s",":"," ","6","6",":","7","7",":","8","8",":","9","9",":","A","A",":","B","B">>,
      <<" "," "," "," ","E","S","S","I","D",":","\"","a","\""," "," ">>,
      <<"w","l","a","n","0"," "," ","S","c","a","n"," ","c","o","m","p","l","e","t","e","d"," ",":">>,
      <<>> }

\* stripped lines of one cell, for the extractors
CellMenu ==
    { <<"E","S","S","I","D",":","\"","a","\"">>,
      QualityLine(35, 70),
      <<"C","h","a","n","n","e","l",":","6">>,
      <<"A","d","d","r","e","s","s",":"," ","0","0",":","1","1",":","2","2",":","3","3",":","4","4",":","5","5">>,
      <<"E","n","c","r","y","p","t","i","o","n"," ","k","e","y",":","o","n">>,
      <<"E","n","c","r","y","p","t","i","o","n"," ","k","e","y",":","o","f","f">>,
      <<"I","E",":"," ","I","E","E","E"," ","8","0","2",".","1","1","i","/","W","P","A","2"," ","V","e","r","s","i","o","n"," ","1">>,
      <<"I","E",":"," ","W","P","A"," ","V","e","r","s","i","o","n"," ","1">>,
      <<"I","E",":","W","P","A"," ","V","e","r","s","i","o","n"," ","1">> }

Numerators == {0, 1, 3, 35, 70}

Denominators == {0, 8, 70}

WellFormedQualityLines == {QualityLine(n, d) : n \in Numerators, d \in Denominators}

NoSlashLine == <<"Q","u","a","l","i","t","y","=","7","0"," "," ","S","i","g","n","a","l"," ","l","e","v","e","l","=","-","4","3"," ","d","B","m">>

NotANumberLine == <<"Q","u","a","l","i","t","y","=","a","b","/","7","0"," "," ","S","i","g","n","a","l"," ","l","e","v","e","l","=","-","4","3"," ","d","B","m">>

ExtraPartLine == <<"Q","u","a","l","i","t","y","=","7","0","/","7","0","/","5"," "," ","S","i","g","n","a","l"," ","l","e","v","e","l","=","-","4","3"," ","d","B","m">>

NoSignalLine == <<"Q","u","a","l","i","t","y","=","7","0","/","7","0">>

QualityMenu ==
    WellFormedQualityLines
    \cup {NoSlashLine, NotANumberLine, ExtraPartLine, NoSignalLine, <<"E","S","S","I","D",":","\"","a","\"">>}

\* a parsed cell whose Name and Quality are given
Record(name, quality) ==
    [Name |-> Str(name), Quality |-> Str(quality), Channel |-> Str(<<"6">>),
     Encryption |-> Str(<<"W","E","P">>), Address |-> None, Signal |-> Str(SignalText)]

SortQualities == {py_format_quality(p) : p \in {5, 50, 100}}

SortRecords == {Record(<<n>>, q) : n \in {"a", "b"}, q \in SortQualities}

\* first lines of iwconfig output
StatusMenu ==
    { <<" ","w","l","a","n","0"," "," ","I","E","E","E"," ","8","0","2",".","1","1"," "," ","E","S","S","I","D",":","\"","h","o","m","e","-","n","e","t","\""," "," ">>,
      <<"w","l","a","n","0"," "," ","E","S","S","I","D",":","o","f","f","/","a","n","y">>,
      <<"w","l","a","n","0"," "," ","E","S","S","I","D",":","\"","m","y","\"","n","e","t","\"">>,
      <<"w","l","a","n","0"," "," ","E","S","S","I","D",":","\"","x","\""," "," ","N","i","c","k","n","a","m","e",":","\"","E","S","S","I","D",":","y","\"">>,
      <<"l","o"," "," ","n","o"," ","w","i","r","e","l","e","s","s"," ","e","x","t","e","n","s","i","o","n","s",".">>,
      <<" "," ","M","o","d","e",":","M","a","n","a","g","e","d">>,
      <<>> }

\* <<n, d>>: qualities n/d of scanned cells
ScanQualities == {<<0, 70>>, <<5, 100>>, <<50, 100>>, <<70, 70>>, <<250, 100>>, <<1000, 100>>}

CellNames == <<"a", "b", "c", "d", "e">>

\* the lines iwlist prints for the i-th cell, of quality q
ScanCell(i, q) ==
    << <<"C","e","l","l"," ","0","1"," ","-"," ","A","d","d","r","e","s","s",":"," ","0","0",":","1","1",":","2","2",":","3","3",":","4","4",":","5","5">>,
       KW_ESSID \o <<"\"", CellNames[i], "\"">>,
       <<" "," ">> \o QualityLine(q[1], q[2]),
       <<" "," ","E","n","c","r","y","p","t","i","o","n"," ","k","e","y",":","o","n">> >>

ScanLines(qs) ==
    << <<"w","l","a","n","0"," "," ","S","c","a","n"," ","c","o","m","p","l","e","t","e","d"," ",":">> >>
    \o Flatten([i \in 1..Len(qs) |-> ScanCell(i, qs[i])])
    \o << <<>> >>

ScanInputs == {ScanLines(qs) : qs \in ListsUpTo(ScanQualities, MaxCells)}

\* a cell iwlist would never print: it has no ESSID line
BrokenScanLines == << <<"C","e","l","l"," ","0","1"," ","-"," ","A","d","d","r","e","s","s",":"," ","0","0",":","1","1",":","2","2",":","3","3",":","4","4",":","5","5">>, <<"C","h","a","n","n","e","l",":","6">> >>

Interfaces == {"wlan0", "wlan1"}

Switches == {"all", "connected", "ALL"}

OrchestratorQualities == {<<5, 100>>, <<70, 70>>}

OrchestratorScans ==
    {ScanLines(qs) : qs \in ListsUpTo(OrchestratorQualities, MaxCells)}

\* what the spawned command may print: a scan, a broken scan, a status
ProcOutputs ==
    {JoinLines(lines) : lines \in OrchestratorScans \cup {BrokenScanLines}}
    \cup {JoinLines(lines) : lines \in ListsUpTo(StatusMenu, 1)}

\* what communicate() reports as error: None unless stderr is piped; the
\* orchestrator is checked for either
ProcErrors == {None, Str(<<"I","n","t","e","r","f","a","c","e"," ","d","o","e","s","n","'","t"," ","s","u","p","p","o","r","t"," ","s","c","a","n","n","i","n","g",".">>)}

---------------------------------------------------------------------------
(* Specifications *)

Start(inputs) ==
    /\ call = "none"
    /\ arg \in inputs
    /\ ret = NoReturn
    /\ spawned = <<>>

Apply(name, result) ==
    /\ call' = name
    /\ ret' = result
    /\ UNCHANGED <<arg, spawned>>

\* the segmentation step of iwlist_parse
InitSegment == Start(ListsUpTo(SegmentMenu, MaxLines))

CallSegment == Apply("iwlist_parse_cells", Val(iwlist_parse_cells(arg)))

NextSegment == CallSegment

SpecSegment == InitSegment /\ [][NextSegment]_vars

\* the extractors of one cell
InitCell == Start(ListsUpTo(CellMenu, MaxCellLines))

CallGetEncryption == Apply("get_encryption", get_encryption(arg))

CallParseCell == Apply("parse_cell", parse_cell(arg))

NextCell == CallGetEncryption \/ CallParseCell

SpecCell == InitCell /\ [][NextCell]_vars

\* Quality and Signal
InitQuality == Start(ListsUpTo(QualityMenu, MaxQualityLines))

CallGetQuality == Apply("get_quality", get_quality(arg))

CallGetSignalLevel == Apply("get_signal_level", get_signal_level(arg))

NextQuality == CallGetQuality \/ CallGetSignalLevel

SpecQuality == InitQuality /\ [][NextQuality]_vars

\* sort_cells sorts its list in place: arg is the list before the call, ret
\* the same list after it; a later call finds the list as the last one left it
InitSort == Start(ListsUpTo(SortRecords, MaxRecords))

CallSortCells ==
    /\ call' = "sort_cells"
    /\ arg' = (IF call = "none" THEN arg ELSE ret.v)
    /\ ret' = Val(sort_cells(arg'))
    /\ UNCHANGED spawned

NextSort == CallSortCells

SpecSort == InitSort /\ [][NextSort]_vars

\* iwconfig_parse, given a list of lines or a value that is no list
InitStatus ==
    Start({None} \cup {Val(lines) : lines \in ListsUpTo(StatusMenu, MaxStatusLines)})

CallIwconfigParse == Apply("iwconfig_parse", iwconfig_parse(arg))

NextStatus == CallIwconfigParse

SpecStatus == InitStatus /\ [][NextStatus]_vars

\* iwlist_parse on the lines of a scan
InitScan == Start(ScanInputs \cup {BrokenScanLines})

CallIwlistParse == Apply("iwlist_parse", iwlist_parse(arg))

NextScan == CallIwlistParse

SpecScan == InitScan /\ [][NextScan]_vars

\* iwlistparse, called once with the given arguments: nothing persists from
\* one call to the next, so one call is every call
IwlistparseArgs ==
    [interface : Interfaces, switch : Switches, headers : BOOLEAN]

Init == Start(IwlistparseArgs)

CallIwlistparse ==
    /\ call = "none"
    /\ \E output \in ProcOutputs, error \in ProcErrors :
        LET proc == [output |-> output, error |-> error]
            args == iwlistparse_spawns(arg.interface, arg.switch)
        IN  /\ call' = "iwlistparse"
            /\ ret' = iwlistparse(arg.interface, arg.switch, arg.headers, proc)
            /\ spawned' = [i \in 1..Len(args) |-> [args |-> args[i], reply |-> proc]]
            /\ UNCHANGED arg

Next == CallIwlistparse

Spec == Init /\ [][Next]_vars

---------------------------------------------------------------------------
(* Claims *)

HasPrefix(line, keyword) ==
    Len(line) >= Len(keyword) /\ SubSeq(line, 1, Len(keyword)) = keyword

Contains(line, keyword) ==
    \E i \in 1..Len(line) :
        i + Len(keyword) - 1 <= Len(line)
        /\ SubSeq(line, i, i + Len(keyword) - 1) = keyword

\* the first line of the cell that begins with keyword is exactly `line`
FirstLineWith(cell, keyword, line) ==
    \E i \in 1..Len(cell) :
        /\ cell[i] = line
        /\ HasPrefix(line, keyword)
        /\ \A j \in 1..(i - 1) : ~HasPrefix(cell[j], keyword)

NoLineWith(cell, keyword) == \A i \in 1..Len(cell) : ~HasPrefix(cell[i], keyword)

Returned == ret.t = "value"

----
\* C1

DelimiterPositions(lines) == {i \in 1..Len(lines) : HasPrefix(lines[i], KW_Cell)}

NthDelimiter(lines, k) ==
    CHOOSE i \in DelimiterPositions(lines) :
        Cardinality({j \in DelimiterPositions(lines) : j <= i}) = k

\* one past the last line of the cell the delimiter at i opens
CellEnd(lines, i) ==
    IF \E j \in DelimiterPositions(lines) : j > i
    THEN CHOOSE j \in DelimiterPositions(lines) :
            j > i /\ \A m \in DelimiterPositions(lines) : m > i => j <= m
    ELSE Len(lines) + 1

ExpectedCell(lines, k) ==
    LET i == NthDelimiter(lines, k)
        n == CellEnd(lines, i) - i
    IN  [m \in 1..n |->
            IF m = 1
            THEN py_strip(py_last(SubSeq(lines[i], Len(KW_Cell) + 1, Len(lines[i])),
                                  AddressWidth))
            ELSE py_strip(lines[i + m - 1])]

----
\* C2

\* C2: iwconfig_parse on an empty list, or on a list whose first line has no
\* 'ESSID:' marker, returns the sentinel '*' and never raises.
C2_SentinelWithoutMarker ==
    (/\ call = "iwconfig_parse"
     /\ arg.t = "value"
     /\ (arg.v = <<>> \/ ~Contains(arg.v[1], KW_ESSID)))
    => ret = Str(CURRENTLY_DISCONNECTED_LABEL)

----
\* C3

KeyOnLine == <<"E","n","c","r","y","p","t","i","o","n"," ","k","e","y",":","o","n">>

KeyOffLine == <<"E","n","c","r","y","p","t","i","o","n"," ","k","e","y",":","o","f","f">>

WPA2Line == <<"I","E",":"," ","I","E","E","E"," ","8","0","2",".","1","1","i","/","W","P","A","2"," ","V","e","r","s","i","o","n"," ","1">>

\* the IE lines of the menu that name a WPA version
WPALines == {WPA2Line, <<"I","E",":"," ","W","P","A"," ","V","e","r","s","i","o","n"," ","1">>, <<"I","E",":","W","P","A"," ","V","e","r","s","i","o","n"," ","1">>}

\* C3: with 'Encryption key:on' and an 'IE: IEEE 802.11i/WPA2 Version 1' line
\* in the cell get_encryption returns 'WPA v.1'; with 'Encryption key:on' and
\* no IE line carrying a WPA version it returns 'WEP'.
C3_WPAVersionFromIELine ==
    (call = "get_encryption" /\ FirstLineWith(arg, KW_EncryptionKey, KeyOnLine))
    => /\ (\E i \in 1..Len(arg) : arg[i] = WPA2Line) => ret = Str(<<"W","P","A"," ","v",".","1">>)
       /\ (\A i \in 1..Len(arg) : arg[i] \notin WPALines) => ret = Str(<<"W","E","P">>)

----
\* C4

\* the marker whose line the extractor of a column looks for
Marker(column) ==
    CASE column = "Name"       -> KW_ESSID
      [] column = "Quality"    -> KW_Quality
      [] column = "Signal"     -> KW_Quality
      [] column = "Channel"    -> KW_Channel
      [] column = "Address"    -> KW_Address
      [] column = "Encryption" -> KW_EncryptionKey

\* C4: parse_cell on a cell that lacks the marker line of some field does not
\* raise: it returns a record with every field of COLUMNS, the empty string
\* standing for each field whose marker line was not found.
C4_MissingMarkerTolerated ==
    call = "parse_cell" =>
        /\ Returned
        /\ \A i \in 1..Len(COLUMNS) :
            /\ COLUMNS[i] \in DOMAIN ret.v
            /\ NoLineWith(arg, Marker(COLUMNS[i])) => ret.v[COLUMNS[i]] = Str(<<>>)

----
\* C5

SortedDescending(cells) ==
    \A i, j \in 1..Len(cells) :
        i < j => ~py_str_lt(cells[i]["Quality"].s, cells[j]["Quality"].s)

Bijections(n) == {p \in [1..n -> 1..n] : \A i, j \in 1..n : p[i] = p[j] => i = j}

\* after is before rearranged, records of equal Quality in their old order
StableRearrangement(before, after) ==
    /\ Len(after) = Len(before)
    /\ \E p \in Bijections(Len(before)) :
        /\ \A i \in 1..Len(before) : after[i] = before[p[i]]
        /\ \A i, j \in 1..Len(before) :
            (i < j /\ after[i]["Quality"] = after[j]["Quality"]) => p[i] < p[j]

\* C5: sort_cells leaves the list in descending order of the Quality strings;
\* the result is a permutation of the input in which records of equal
\* Quality keep their input order; a list already in that order is unchanged.
C5_SortStableIdempotent ==
    call = "sort_cells" =>
        /\ SortedDescending(ret.v)
        /\ StableRearrangement(arg, ret.v)
        /\ SortedDescending(arg) => ret.v = arg

C5_Witness ==
    /\ call = "sort_cells"
    /\ Len(arg) = 3
    /\ ret.v # arg
    /\ arg[1]["Quality"] = arg[3]["Quality"]
    /\ arg[1]["Name"] # arg[3]["Name"]
    /\ py_str_lt(arg[1]["Quality"].s, arg[2]["Quality"].s)

----
\* C6

RECURSIVE StripQuotes(_)
StripQuotes(s) ==
    IF s # <<>> /\ Head(s) = "\"" THEN StripQuotes(Tail(s))
    ELSE IF s # <<>> /\ s[Len(s)] = "\"" THEN StripQuotes(SubSeq(s, 1, Len(s) - 1))
    ELSE s

\* the text after the first 'ESSID:' of the line
AfterMarker(line) ==
    LET i == CHOOSE k \in 1..Len(line) :
                /\ SubSeq(line, k, k + Len(KW_ESSID) - 1) = KW_ESSID
                /\ \A m \in 1..(k - 1) :
                    SubSeq(line, m, m + Len(KW_ESSID) - 1) # KW_ESSID
    IN  SubSeq(line, i + Len(KW_ESSID), Len(line))

\* C6: when the first line contains 'ESSID:', iwconfig_parse returns the text
\* after the first occurrence of the marker in the stripped line, without the
\* quote characters around it, and '*' when that text is 'off/any'; no line
\* after the first changes the result.
C6_NameAfterMarker ==
    (/\ call = "iwconfig_parse"
     /\ arg.t = "value"
     /\ arg.v # <<>>
     /\ Contains(arg.v[1], KW_ESSID))
    => LET name == StripQuotes(AfterMarker(py_strip(arg.v[1])))
       IN  ret = Str(IF name = <<"o","f","f","/","a","n","y">> THEN CURRENTLY_DISCONNECTED_LABEL
                     ELSE name)

----
\* C7

\* C7: a call of iwlistparse runs at most one command.  With switch 'all'
\* currently_connected is '*'; with 'connected' access_points is empty; with
\* any other switch no command runs, the call returns, and the result is
\* '*', no access points and error None.  The error field is what the command
\* that ran reported (None when none ran) and headers is the argument.
C7_OneBranch ==
    call = "iwlistparse" =>
        /\ Len(spawned) <= 1
        /\ arg.switch \notin {"all", "connected"} => (Returned /\ spawned = <<>>)
        /\ Returned =>
            /\ arg.switch = "all" =>
                ret.v.currently_connected = Str(CURRENTLY_DISCONNECTED_LABEL)
            /\ arg.switch = "connected" => ret.v.access_points = <<>>
            /\ arg.switch \notin {"all", "connected"} =>
                /\ ret.v.currently_connected = Str(CURRENTLY_DISCONNECTED_LABEL)
                /\ ret.v.access_points = <<>>
            /\ ret.v.error = (IF spawned = <<>> THEN None ELSE spawned[1].reply.error)
            /\ ret.v.headers = arg.headers

C7_Witness ==
    /\ call = "iwlistparse"
    /\ arg.switch = "all"
    /\ Returned
    /\ Len(ret.v.access_points) = 2
    /\ ret.v.error # None
    /\ spawned[1].args = <<"iwlist", arg.interface, "scan">>

----
\* C8

\* C8: when the Encryption key line of the cell reads 'Encryption key:off',
\* get_encryption returns 'Open', whatever IE lines the cell holds and
\* whether they come before or after that line.
C8_OpenWhenKeyOff ==
    (call = "get_encryption" /\ FirstLineWith(arg, KW_EncryptionKey, KeyOffLine))
    => ret = Str(<<"O","p","e","n">>)

C8_Witness ==
    /\ call = "get_encryption"
    /\ arg = << <<"I","E",":","W","P","A"," ","V","e","r","s","i","o","n"," ","1">>, KeyOffLine, WPA2Line >>
    /\ ret = Str(<<"O","p","e","n">>)

----
\* C9

Abs(x) == IF x < 0 THEN -x ELSE x

\* the integer nearest to 100 * n / d, the even one of two equally near
NearestPercent(n, d) ==
    CHOOSE p \in 0..(100 * n + d) :
        /\ 2 * Abs(100 * n - p * d) <= d
        /\ 2 * Abs(100 * n - p * d) = d => p % 2 = 0

\* p as an integer right-justified to width 3, then ' %'
PercentText(p) ==
    (IF p < 10 THEN <<" "," ">> ELSE IF p < 100 THEN <<" ">> ELSE <<>>)
    \o py_str_int(p) \o <<" ","%">>

QualityOfWellFormedLine ==
    \A n \in Numerators, d \in Denominators :
        FirstLineWith(arg, KW_Quality, QualityLine(n, d)) =>
            /\ (call = "get_quality" /\ d > 0) =>
                ret = Str(PercentText(NearestPercent(n, d)))
            /\ (call = "get_quality" /\ d = 0) => IsRaise(ret)
            /\ call = "get_signal_level" => ret = Str(SignalText)

----
\* C10

IsDigit(c) == c \in DOMAIN Digit

\* the number a Quality string shows
PercentShown(quality) == py_digits_value(SelectSeq(quality, IsDigit), 0)

NumericallyDescending(cells) ==
    \A i, j \in 1..Len(cells) :
        i < j => PercentShown(cells[i]["Quality"].s) >= PercentShown(cells[j]["Quality"].s)

\* C10: when every percentage is in 0..999, the list iwlist_parse returns is
\* in descending numeric order of the percentages, one-, two- and
\* three-digit values alike.
C10_StringOrderIsNumeric ==
    (/\ call = "iwlist_parse"
     /\ Returned
     /\ \A i \in 1..Len(ret.v) : PercentShown(ret.v[i]["Quality"].s) <= 999)
    => NumericallyDescending(ret.v)

C10_Witness ==
    /\ call = "iwlist_parse"
    /\ Returned
    /\ Len(ret.v) = 3
    /\ ret.v[1]["Quality"] = Str(<<"1","0","0"," ","%">>)
    /\ ret.v[2]["Quality"] = Str(<<" ","5","0"," ","%">>)
    /\ ret.v[3]["Quality"] = Str(<<" "," ","5"," ","%">>)
    /\ ret.v[1]["Name"] = Str(<<"c">>)
    /\ ret.v[3]["Name"] = Str(<<"a">>)

=============================================================================
